---------------------------- MODULE Spec2Model ----------------------------
(***************************************************************************)
(* A model of PySpike's piece-wise function classes (pyspike/function.py):  *)
(* PieceWiseConstFunc, PieceWiseLinFunc, DiscreteFunction and               *)
(* average_profile.                                                         *)
(*                                                                          *)
(* Numbers.  The arrays hold floats; the model computes with exact          *)
(* rationals <<n, d>> (d > 0, lowest terms), so every statement is about    *)
(* the real-number result the floating-point code approximates.  The        *)
(* breakpoints x and the multiplicities mp stay integers in every           *)
(* operation of the model (only y, y1, y2 are ever scaled or interpolated), *)
(* so they are kept as integers.                                            *)
(*                                                                          *)
(* Indexing.  Python indices are 0-based and may be negative; TLA+          *)
(* sequences are 1-based.  PyIndex and PySlice translate, keeping Python's  *)
(* rules for negative and out-of-range indices.                             *)
(***************************************************************************)
EXTENDS Integers, Sequences, FiniteSets

\* ------------------------------------------------------------------------
\* Bounds of the model
\* ------------------------------------------------------------------------

\* breakpoints and query bounds of the query specification lie on 0..MaxX
MaxX == 3

\* values of y, y1, y2 drawn for the functions of the model
YVals == {0, 2}

\* multiplicities drawn for the discrete functions of the model
MpVals == {1, 2}

\* ------------------------------------------------------------------------
\* Exact rational arithmetic (the model of float arithmetic)
\* ------------------------------------------------------------------------

Abs(n) == IF n < 0 THEN -n ELSE n

Min2(a, b) == IF a <= b THEN a ELSE b

Max2(a, b) == IF a >= b THEN a ELSE b

RECURSIVE GCD(_, _)
GCD(a, b) == IF b = 0 THEN a ELSE GCD(b, a % b)

\* the rational n/d in lowest terms with a positive denominator (d # 0)
Rat(n, d) ==
    LET g == GCD(Abs(n), Abs(d))
        s == IF d < 0 THEN -1 ELSE 1
    IN <<(s * n) \div g, (s * d) \div g>>

RInt(n) == <<n, 1>>

RZero == <<0, 1>>

RAdd(p, q) == Rat(p[1] * q[2] + q[1] * p[2], p[2] * q[2])

RSub(p, q) == Rat(p[1] * q[2] - q[1] * p[2], p[2] * q[2])

RMul(p, q) == Rat(p[1] * q[1], p[2] * q[2])

\* p / q for q # 0
RDiv(p, q) == Rat(p[1] * q[2], p[2] * q[1])

RHalf == <<1, 2>>

\* ------------------------------------------------------------------------
\* Results of a call: a value, a non-finite float, or the exception raised
\* ------------------------------------------------------------------------

Ok(v) == [tag |-> "ok", val |-> v]

Raise(e) == [tag |-> e, val |-> RZero]

\* numpy float division: a zero divisor gives inf or nan (with a warning),
\* not an exception
FloatDiv(p, q) ==
    IF q # RZero THEN Ok(RDiv(p, q))
    ELSE IF p = RZero THEN [tag |-> "nan", val |-> RZero]
    ELSE [tag |-> "inf", val |-> RInt(IF p[1] < 0 THEN -1 ELSE 1)]

\* ------------------------------------------------------------------------
\* Python and numpy array primitives
\* ------------------------------------------------------------------------

\* seq[i] is defined for -len <= i < len, else IndexError
ValidIndex(s, i) == -Len(s) <= i /\ i < Len(s)

PyIndex(s, i) == IF i < 0 THEN s[i + Len(s) + 1] ELSE s[i + 1]

\* a slice bound: negative counts from the end, then clamped to 0..len
SliceBound(n, i) == IF i < 0 THEN Max2(i + n, 0) ELSE Min2(i, n)

\* seq[lo:hi]
PySlice(s, lo, hi) ==
    SubSeq(s, SliceBound(Len(s), lo) + 1, SliceBound(Len(s), hi))

\* numpy broadcasting of two 1-d shapes
Broadcastable(n, m) == n = m \/ n = 1 \/ m = 1

BroadcastLen(n, m) == IF n = m THEN n ELSE IF n = 1 THEN m ELSE n

BroadcastAt(s, i) == IF Len(s) = 1 THEN s[1] ELSE s[i]

\* elementwise s - t, s * t, s + t of broadcastable arrays of rationals
ArrSub(s, t) ==
    [i \in 1..BroadcastLen(Len(s), Len(t)) |->
        RSub(BroadcastAt(s, i), BroadcastAt(t, i))]

ArrMul(s, t) ==
    [i \in 1..BroadcastLen(Len(s), Len(t)) |->
        RMul(BroadcastAt(s, i), BroadcastAt(t, i))]

ArrAdd(s, t) ==
    [i \in 1..BroadcastLen(Len(s), Len(t)) |->
        RAdd(BroadcastAt(s, i), BroadcastAt(t, i))]

\* an integer array as a float array
ArrFloat(s) == [i \in 1..Len(s) |-> RInt(s[i])]

\* array * scalar
ArrScale(s, c) == [i \in 1..Len(s) |-> RMul(s[i], c)]

RECURSIVE NpSum(_)
NpSum(s) == IF s = <<>> THEN RZero ELSE RAdd(s[1], NpSum(Tail(s)))

RECURSIVE IntSum(_)
IntSum(s) == IF s = <<>> THEN 0 ELSE s[1] + IntSum(Tail(s))

\* np.searchsorted(x, v, side) on a sorted array of integers
SearchSorted(x, v, side) ==
    IF side = "right"
    THEN Cardinality({i \in 1..Len(x) : x[i] <= v})
    ELSE Cardinality({i \in 1..Len(x) : x[i] < v})

\* ------------------------------------------------------------------------
\* PieceWiseConstFunc: [x, y]
\* ------------------------------------------------------------------------

\* integral(None) summing the values without the interval lengths
ConstIntegralAll_Unweighted(f) == Ok(NpSum(f.y))

\* integral(None)
ConstIntegralAll(f) ==
    Ok(NpSum(ArrMul(ArrFloat([i \in 1..(Len(f.x) - 1) |-> f.x[i + 1] - f.x[i]]),
                    f.y)))

\* integral([a, b])
\* integral([a, b]) without the two corrections at the bounds
ConstIntegral_FullIntervalsOnly(f, a, b) ==
    LET start_ind == SearchSorted(f.x, a, "right")
        end_ind   == SearchSorted(f.x, b, "left") - 1
        hi == ArrFloat(PySlice(f.x, start_ind + 1, end_ind + 1))
        lo == ArrFloat(PySlice(f.x, start_ind, end_ind))
        ys == PySlice(f.y, start_ind, end_ind)
    IN IF ~(start_ind > 0 /\ end_ind < Len(f.x)) THEN Raise("AssertionError")
       ELSE IF ~Broadcastable(Len(hi), Len(lo)) THEN Raise("ValueError")
       ELSE IF ~Broadcastable(BroadcastLen(Len(hi), Len(lo)), Len(ys))
            THEN Raise("ValueError")
       ELSE Ok(NpSum(ArrMul(ArrSub(hi, lo), ys)))

ConstIntegral(f, a, b) ==
    LET start_ind == SearchSorted(f.x, a, "right")
        end_ind   == SearchSorted(f.x, b, "left") - 1
        hi == ArrFloat(PySlice(f.x, start_ind + 1, end_ind + 1))
        lo == ArrFloat(PySlice(f.x, start_ind, end_ind))
        ys == PySlice(f.y, start_ind, end_ind)
    IN IF ~(start_ind > 0 /\ end_ind < Len(f.x)) THEN Raise("AssertionError")
       ELSE IF ~Broadcastable(Len(hi), Len(lo)) THEN Raise("ValueError")
       ELSE IF ~Broadcastable(BroadcastLen(Len(hi), Len(lo)), Len(ys))
            THEN Raise("ValueError")
       ELSE IF ~ValidIndex(f.x, start_ind) \/ ~ValidIndex(f.y, start_ind - 1)
            THEN Raise("IndexError")
       ELSE IF ~ValidIndex(f.x, end_ind) \/ ~ValidIndex(f.y, end_ind)
            THEN Raise("IndexError")
       ELSE Ok(RAdd(RAdd(NpSum(ArrMul(ArrSub(hi, lo), ys)),
                         RMul(RInt(PyIndex(f.x, start_ind) - a),
                              PyIndex(f.y, start_ind - 1))),
                    RMul(RInt(b - PyIndex(f.x, end_ind)),
                         PyIndex(f.y, end_ind))))

\* ------------------------------------------------------------------------
\* PieceWiseLinFunc: [x, y1, y2]
\* ------------------------------------------------------------------------

\* y0 + (y1-y0)*(x-x0)/(x1-x0), with x0 # x1
intermediate_value(x0, x1, y0, y1, x) ==
    RAdd(y0, RDiv(RMul(RSub(y1, y0), RInt(x - x0)), RInt(x1 - x0)))

\* integral(None)
LinIntegralAll(f) ==
    Ok(NpSum(ArrMul(ArrScale(ArrFloat([i \in 1..(Len(f.x) - 1) |->
                                          f.x[i + 1] - f.x[i]]), RHalf),
                    ArrAdd(f.y1, f.y2))))

\* integral([a, b])
LinIntegral(f, a, b) ==
    LET start_ind == SearchSorted(f.x, a, "right")
        end_ind   == SearchSorted(f.x, b, "left") - 1
        hi  == ArrFloat(PySlice(f.x, start_ind + 1, end_ind + 1))
        lo  == ArrFloat(PySlice(f.x, start_ind, end_ind))
        y1s == PySlice(f.y1, start_ind, end_ind)
        y2s == PySlice(f.y2, start_ind, end_ind)
    IN IF ~(start_ind > 0 /\ end_ind < Len(f.x)) THEN Raise("AssertionError")
       ELSE IF ~Broadcastable(Len(hi), Len(lo)) THEN Raise("ValueError")
       ELSE IF ~Broadcastable(BroadcastLen(Len(hi), Len(lo)), Len(y1s))
            THEN Raise("ValueError")
       ELSE IF ~ValidIndex(f.x, start_ind) \/ ~ValidIndex(f.y2, start_ind - 1)
            THEN Raise("IndexError")
       ELSE IF ~ValidIndex(f.x, end_ind) \/ ~ValidIndex(f.y1, end_ind)
               \/ ~ValidIndex(f.x, end_ind + 1)
            THEN Raise("IndexError")
       ELSE Ok(RAdd(RAdd(
                NpSum(ArrMul(ArrScale(ArrSub(hi, lo), RHalf),
                             ArrAdd(y1s, y2s))),
                RMul(RMul(RInt(PyIndex(f.x, start_ind) - a), RHalf),
                     RAdd(PyIndex(f.y2, start_ind - 1),
                          intermediate_value(PyIndex(f.x, start_ind - 1),
                                             PyIndex(f.x, start_ind),
                                             PyIndex(f.y1, start_ind - 1),
                                             PyIndex(f.y2, start_ind - 1),
                                             a)))),
                RMul(RMul(RInt(b - PyIndex(f.x, end_ind)), RHalf),
                     RAdd(PyIndex(f.y1, end_ind),
                          intermediate_value(PyIndex(f.x, end_ind),
                                             PyIndex(f.x, end_ind + 1),
                                             PyIndex(f.y1, end_ind),
                                             PyIndex(f.y2, end_ind),
                                             b)))))

\* ------------------------------------------------------------------------
\* avrg of PieceWiseConstFunc and PieceWiseLinFunc (the same code in both)
\* ------------------------------------------------------------------------

\* self.integral(interval) of the receiver's class
PwIntegral(k, f, a, b) ==
    IF k = "const" THEN ConstIntegral(f, a, b) ELSE LinIntegral(f, a, b)

PwIntegralAll(k, f) ==
    IF k = "const" THEN ConstIntegralAll(f) ELSE LinIntegralAll(f)

\* avrg(None) dividing by the number of intervals, not by the domain length
PwAvrgAll_ByCount(k, f) ==
    FloatDiv(PwIntegralAll(k, f).val, RInt(Len(f.x) - 1))

\* avrg(None): self.integral() / (self.x[-1]-self.x[0])
PwAvrgAll(k, f) ==
    FloatDiv(PwIntegralAll(k, f).val,
             RInt(PyIndex(f.x, -1) - PyIndex(f.x, 0)))

\* avrg([a, b]): self.integral(interval) / (interval[1]-interval[0])
PwAvrgPair(k, f, a, b) ==
    LET i == PwIntegral(k, f, a, b)
    IN IF i.tag # "ok" THEN i ELSE FloatDiv(i.val, RInt(b - a))

\* the loop of avrg over a sequence of pairs: a and int_length accumulate,
\* an exception of integral ends the call
RECURSIVE PwAvrgLoop(_, _, _, _, _)
PwAvrgLoop(k, f, ivals, a, int_length) ==
    IF ivals = <<>> THEN FloatDiv(a, RInt(int_length))
    ELSE LET i == PwIntegral(k, f, ivals[1][1], ivals[1][2])
         IN IF i.tag # "ok" THEN i
            ELSE PwAvrgLoop(k, f, Tail(ivals), RAdd(a, i.val),
                            int_length + (ivals[1][2] - ivals[1][1]))

\* avrg of a sequence of pairs as the mean of the per-interval averages
RECURSIVE PwAvrgLoop_PerInterval(_, _, _, _, _)
PwAvrgLoop_PerInterval(k, f, ivals, a, n) ==
    IF ivals = <<>> THEN FloatDiv(a, RInt(n))
    ELSE LET i == PwAvrgPair(k, f, ivals[1][1], ivals[1][2])
         IN IF i.tag # "ok" THEN i
            ELSE PwAvrgLoop_PerInterval(k, f, Tail(ivals), RAdd(a, i.val),
                                        n + 1)

PwAvrgSeq_PerInterval(k, f, ivals) ==
    PwAvrgLoop_PerInterval(k, f, ivals, RZero, 0)

\* avrg([(a1, b1), ..., (ak, bk)])
PwAvrgSeq(k, f, ivals) == PwAvrgLoop(k, f, ivals, RZero, 0)

\* ------------------------------------------------------------------------
\* DiscreteFunction: [x, y, mp]
\* ------------------------------------------------------------------------

\* integral(None): 1.0 * np.sum(self.y[1:-1]) / np.sum(self.mp[1:-1])
DiscIntegralAll(f) ==
    FloatDiv(NpSum(PySlice(f.y, 1, -1)), RInt(IntSum(PySlice(f.mp, 1, -1))))

\* get_indices with the end index located from the right as well
get_indices_RightRight(f, a, b) ==
    LET start_ind == SearchSorted(f.x, a, "right")
        end_ind   == SearchSorted(f.x, b, "right")
    IN IF start_ind > 0 /\ end_ind < Len(f.x)
       THEN <<start_ind, end_ind>> ELSE <<>>

\* get_indices(ival): <<start_ind, end_ind>>, or <<>> when the assertion fails
get_indices(f, a, b) ==
    LET start_ind == SearchSorted(f.x, a, "right")
        end_ind   == SearchSorted(f.x, b, "left")
    IN IF start_ind > 0 /\ end_ind < Len(f.x)
       THEN <<start_ind, end_ind>> ELSE <<>>

\* integral([a, b])
DiscIntegral(f, a, b) ==
    LET ind == get_indices(f, a, b)
    IN IF ind = <<>> THEN Raise("AssertionError")
       ELSE FloatDiv(NpSum(PySlice(f.y, ind[1], ind[2])),
                     RInt(IntSum(PySlice(f.mp, ind[1], ind[2]))))

\* the loop of integral over a sequence of pairs
RECURSIVE DiscIntegralLoop(_, _, _, _)
DiscIntegralLoop(f, ivals, value, multiplicity) ==
    IF ivals = <<>> THEN FloatDiv(value, RInt(multiplicity))
    ELSE LET ind == get_indices(f, ivals[1][1], ivals[1][2])
         IN IF ind = <<>> THEN Raise("AssertionError")
            ELSE DiscIntegralLoop(f, Tail(ivals),
                    RAdd(value, NpSum(PySlice(f.y, ind[1], ind[2]))),
                    multiplicity + IntSum(PySlice(f.mp, ind[1], ind[2])))

\* integral([(a1, b1), ..., (ak, bk)])
DiscIntegralSeq(f, ivals) == DiscIntegralLoop(f, ivals, RZero, 0)

\* avrg(interval): return self.integral(interval)
DiscAvrgAll(f) == DiscIntegralAll(f)

DiscAvrgPair(f, a, b) == DiscIntegral(f, a, b)

\* ------------------------------------------------------------------------
\* The merge backend (add_piece_wise_const, add_piece_wise_lin,
\* add_discrete_function): a sweep over the two breakpoint arrays with one
\* cursor in each.  i1 and i2 are the intervals (1-based) that cover the
\* sweep position, which is the last entry of xn.
\* ------------------------------------------------------------------------

Last(s) == s[Len(s)]

\* the next breakpoint of an operand after interval i, or none
HasNext(x, i) == i < Len(x)

\* the next sweep position: the smaller of the two next breakpoints
NextPos(x1, x2, i1, i2) ==
    IF ~HasNext(x2, i2) THEN x1[i1 + 1]
    ELSE IF ~HasNext(x1, i1) THEN x2[i2 + 1]
    ELSE Min2(x1[i1 + 1], x2[i2 + 1])

\* the cursor after the sweep moved to position t
Advance(x, i, t) == IF HasNext(x, i) /\ x[i + 1] = t THEN i + 1 ELSE i

\* the interval a cursor reads: the last one once the operand is exhausted
Cur(y, i) == y[Min2(i, Len(y))]

RECURSIVE ConstSweep(_, _, _, _, _, _, _, _)
ConstSweep(x1, y1, x2, y2, i1, i2, xn, yn) ==
    IF ~HasNext(x1, i1) /\ ~HasNext(x2, i2) THEN <<xn, yn>>
    ELSE LET t == NextPos(x1, x2, i1, i2)
         IN ConstSweep(x1, y1, x2, y2,
                       Advance(x1, i1, t), Advance(x2, i2, t),
                       Append(xn, t),
                       Append(yn, RAdd(Cur(y1, i1), Cur(y2, i2))))

\* the union of the breakpoints, and on each interval between two of them
\* the sum of the two step values there
add_piece_wise_const(x1, y1, x2, y2) ==
    ConstSweep(x1, y1, x2, y2, 1, 1, <<x1[1]>>, <<>>)

\* the value at t of an operand on its interval i
LinAt(x, y1, y2, i, t) ==
    LET j == Min2(i, Len(y1))
    IN intermediate_value(x[j], x[j + 1], y1[j], y2[j], t)

RECURSIVE LinSweep(_, _, _, _, _, _, _, _, _, _, _)
LinSweep(x1, y11, y12, x2, y21, y22, i1, i2, xn, y1n, y2n) ==
    IF ~HasNext(x1, i1) /\ ~HasNext(x2, i2) THEN <<xn, y1n, y2n>>
    ELSE LET t == NextPos(x1, x2, i1, i2)
         IN LinSweep(x1, y11, y12, x2, y21, y22,
                     Advance(x1, i1, t), Advance(x2, i2, t),
                     Append(xn, t),
                     Append(y1n, RAdd(LinAt(x1, y11, y12, i1, Last(xn)),
                                      LinAt(x2, y21, y22, i2, Last(xn)))),
                     Append(y2n, RAdd(LinAt(x1, y11, y12, i1, t),
                                      LinAt(x2, y21, y22, i2, t))))

\* the union of the breakpoints; an interval split by the other operand's
\* breakpoint takes its end value there by linear interpolation, and the
\* end values of the two operands are summed
add_piece_wise_lin(x1, y11, y12, x2, y21, y22) ==
    LinSweep(x1, y11, y12, x2, y21, y22, 1, 1, <<x1[1]>>, <<>>, <<>>)

\* here i1 and i2 are the next points not yet taken
RECURSIVE DiscSweep(_, _, _, _, _, _, _, _, _, _, _)
DiscSweep(x1, y1, mp1, x2, y2, mp2, i1, i2, xn, yn, mpn) ==
    IF i1 > Len(x1) /\ i2 > Len(x2) THEN <<xn, yn, mpn>>
    ELSE IF i2 > Len(x2) \/ (i1 <= Len(x1) /\ x1[i1] < x2[i2])
    THEN DiscSweep(x1, y1, mp1, x2, y2, mp2, i1 + 1, i2,
                   Append(xn, x1[i1]), Append(yn, y1[i1]),
                   Append(mpn, mp1[i1]))
    ELSE IF i1 > Len(x1) \/ x2[i2] < x1[i1]
    THEN DiscSweep(x1, y1, mp1, x2, y2, mp2, i1, i2 + 1,
                   Append(xn, x2[i2]), Append(yn, y2[i2]),
                   Append(mpn, mp2[i2]))
    ELSE DiscSweep(x1, y1, mp1, x2, y2, mp2, i1 + 1, i2 + 1,
                   Append(xn, x1[i1]), Append(yn, RAdd(y1[i1], y2[i2])),
                   Append(mpn, mp1[i1] + mp2[i2]))

\* the sorted union of the points; a point of both operands has its y and
\* its mp summed, a point of one operand keeps its own
add_discrete_function(x1, y1, mp1, x2, y2, mp2) ==
    DiscSweep(x1, y1, mp1, x2, y2, mp2, 1, 1, <<>>, <<>>, <<>>)

\* ------------------------------------------------------------------------
\* add, mul_scalar, copy, almost_equal.  A call that changes its receiver
\* gives [res, self]: what it returned or raised, and the receiver after it.
\* ------------------------------------------------------------------------

Returned(r, f) == [res |-> r, self |-> f]

None == [tag |-> "ok", val |-> "None"]

SameEnds(self, f) ==
    PyIndex(self.x, 0) = PyIndex(f.x, 0)
        /\ PyIndex(self.x, -1) = PyIndex(f.x, -1)

\* add(f) without the check of the last breakpoints
ConstAdd_OneAssert(self, f) ==
    IF PyIndex(self.x, 0) # PyIndex(f.x, 0)
    THEN Returned(Raise("AssertionError"), self)
    ELSE LET m == add_piece_wise_const(self.x, self.y, f.x, f.y)
         IN Returned(None, [x |-> m[1], y |-> m[2]])

\* add(f) handing the backend self.y in the place of f.y
ConstAdd_SelfValues(self, f) ==
    IF PyIndex(self.x, 0) # PyIndex(f.x, 0)
    THEN Returned(Raise("AssertionError"), self)
    ELSE IF PyIndex(self.x, -1) # PyIndex(f.x, -1)
    THEN Returned(Raise("AssertionError"), self)
    ELSE LET m == add_piece_wise_const(self.x, self.y, f.x, self.y)
         IN Returned(None, [x |-> m[1], y |-> m[2]])

\* PieceWiseConstFunc.add(f)
ConstAdd(self, f) ==
    IF PyIndex(self.x, 0) # PyIndex(f.x, 0)
    THEN Returned(Raise("AssertionError"), self)
    ELSE IF PyIndex(self.x, -1) # PyIndex(f.x, -1)
    THEN Returned(Raise("AssertionError"), self)
    ELSE LET m == add_piece_wise_const(self.x, self.y, f.x, f.y)
         IN Returned(None, [x |-> m[1], y |-> m[2]])

\* PieceWiseLinFunc.add(f)
LinAdd(self, f) ==
    IF PyIndex(self.x, 0) # PyIndex(f.x, 0)
    THEN Returned(Raise("AssertionError"), self)
    ELSE IF PyIndex(self.x, -1) # PyIndex(f.x, -1)
    THEN Returned(Raise("AssertionError"), self)
    ELSE LET m == add_piece_wise_lin(self.x, self.y1, self.y2,
                                     f.x, f.y1, f.y2)
         IN Returned(None, [x |-> m[1], y1 |-> m[2], y2 |-> m[3]])

\* DiscreteFunction.add(f)
DiscAdd(self, f) ==
    IF PyIndex(self.x, 0) # PyIndex(f.x, 0)
    THEN Returned(Raise("AssertionError"), self)
    ELSE IF PyIndex(self.x, -1) # PyIndex(f.x, -1)
    THEN Returned(Raise("AssertionError"), self)
    ELSE LET m == add_discrete_function(self.x, self.y, self.mp,
                                        f.x, f.y, f.mp)
         IN Returned(None, [x |-> m[1], y |-> m[2], mp |-> m[3]])

Add(k, self, f) ==
    IF k = "const" THEN ConstAdd(self, f)
    ELSE IF k = "lin" THEN LinAdd(self, f) ELSE DiscAdd(self, f)

\* mul_scalar(fac): self.y *= fac; self.y1 *= fac and self.y2 *= fac
ConstMulScalar(self, fac) == [self EXCEPT !.y = ArrScale(self.y, fac)]

LinMulScalar(self, fac) ==
    [self EXCEPT !.y1 = ArrScale(self.y1, fac),
                 !.y2 = ArrScale(self.y2, fac)]

DiscMulScalar(self, fac) == [self EXCEPT !.y = ArrScale(self.y, fac)]

MulScalar(k, self, fac) ==
    IF k = "const" THEN ConstMulScalar(self, fac)
    ELSE IF k = "lin" THEN LinMulScalar(self, fac)
    ELSE DiscMulScalar(self, fac)

\* copy(): a new instance built from the arrays, which np.array copies
Copy(k, self) == self

\* decimal=14, the default precision of almost_equal
decimal == 14

RECURSIVE DivPow10(_, _)
DivPow10(q, k) == IF k = 0 THEN q ELSE DivPow10(q \div 10, k - 1)

\* |p - q| <= 10.0**(-decimal)
Close(p, q) ==
    LET r == RSub(p, q)
    IN r[1] = 0 \/ DivPow10(r[2] \div Abs(r[1]), decimal) >= 1

\* np.allclose(s, t, atol=eps, rtol=0.0): "true", "false", or "ValueError"
\* when the shapes do not broadcast
AllClose(s, t) ==
    IF ~Broadcastable(Len(s), Len(t)) THEN "ValueError"
    ELSE IF \A i \in 1..BroadcastLen(Len(s), Len(t)) :
                Close(BroadcastAt(s, i), BroadcastAt(t, i))
    THEN "true" ELSE "false"

\* a and b and ... of the np.allclose results, left to right
RECURSIVE AndAll(_)
AndAll(rs) ==
    IF rs = <<>> THEN Ok(TRUE)
    ELSE IF rs[1] = "ValueError" THEN Raise("ValueError")
    ELSE IF rs[1] = "false" THEN Ok(FALSE)
    ELSE AndAll(Tail(rs))

\* almost_equal(other)
AlmostEqual(k, self, other) ==
    IF k = "const"
    THEN AndAll(<<AllClose(ArrFloat(self.x), ArrFloat(other.x)),
                  AllClose(self.y, other.y)>>)
    ELSE IF k = "lin"
    THEN AndAll(<<AllClose(ArrFloat(self.x), ArrFloat(other.x)),
                  AllClose(self.y1, other.y1),
                  AllClose(self.y2, other.y2)>>)
    ELSE AndAll(<<AllClose(ArrFloat(self.x), ArrFloat(other.x)),
                  AllClose(self.y, other.y),
                  AllClose(ArrFloat(self.mp), ArrFloat(other.mp))>>)

\* ------------------------------------------------------------------------
\* average_profile(profiles)
\* ------------------------------------------------------------------------

\* for i in xrange(1, len(profiles)): avrg_profile.add(profiles[i])
RECURSIVE AverageFold(_, _, _)
AverageFold(k, avrg_profile, rest) ==
    IF rest = <<>> THEN Returned(None, avrg_profile)
    ELSE LET r == Add(k, avrg_profile, rest[1])
         IN IF r.res.tag # "ok" THEN r
            ELSE AverageFold(k, r.self, Tail(rest))

\* average_profile normalizing by the number of merges, len(profiles) - 1
AverageProfile_ByMerges(k, ps) ==
    IF ~(Len(ps) > 1) THEN Raise("AssertionError")
    ELSE LET r == AverageFold(k, Copy(k, ps[1]), Tail(ps))
         IN IF r.res.tag # "ok" THEN r.res
            ELSE Ok(MulScalar(k, r.self, Rat(1, Len(ps) - 1)))

\* the profile returned, or the exception raised
AverageProfile(k, ps) ==
    IF ~(Len(ps) > 1) THEN Raise("AssertionError")
    ELSE LET r == AverageFold(k, Copy(k, ps[1]), Tail(ps))
         IN IF r.res.tag # "ok" THEN r.res
            ELSE Ok(MulScalar(k, r.self, Rat(1, Len(ps))))

\* ------------------------------------------------------------------------
\* The three classes behind one interface
\* ------------------------------------------------------------------------

Kinds == {"const", "lin", "disc"}

IntegralAll(k, f) ==
    IF k = "disc" THEN DiscIntegralAll(f) ELSE PwIntegralAll(k, f)

Integral(k, f, a, b) ==
    IF k = "disc" THEN DiscIntegral(f, a, b) ELSE PwIntegral(k, f, a, b)

AvrgAll(k, f) == IF k = "disc" THEN DiscAvrgAll(f) ELSE PwAvrgAll(k, f)

AvrgPair(k, f, a, b) ==
    IF k = "disc" THEN DiscAvrgPair(f, a, b) ELSE PwAvrgPair(k, f, a, b)

AvrgSeq(k, f, ivals) ==
    IF k = "disc" THEN DiscIntegralSeq(f, ivals) ELSE PwAvrgSeq(k, f, ivals)

\* ------------------------------------------------------------------------
\* The functions the model constructs
\* ------------------------------------------------------------------------

RECURSIVE SortedSeq(_)
SortedSeq(S) ==
    IF S = {} THEN <<>>
    ELSE LET m == CHOOSE v \in S : \A w \in S : v <= w
         IN <<m>> \o SortedSeq(S \ {m})

\* the strictly increasing breakpoint arrays on 0..maxx, two entries or more
XSeqs(maxx) ==
    {SortedSeq(S) : S \in {T \in SUBSET (0..maxx) : Cardinality(T) >= 2}}

YSeqs(n) == [1..n -> {RInt(v) : v \in YVals}]

\* PieceWiseConstFunc(x, y), len(y) = len(x) - 1
ConstFuncs(X) ==
    UNION {{[x |-> xs, y |-> ys] : ys \in YSeqs(Len(xs) - 1)} : xs \in X}

\* PieceWiseLinFunc(x, y1, y2), len(y1) = len(y2) = len(x) - 1
LinFuncs(X) ==
    UNION {{[x |-> xs, y1 |-> p[1], y2 |-> p[2]] :
              p \in YSeqs(Len(xs) - 1) \X YSeqs(Len(xs) - 1)} : xs \in X}

\* DiscreteFunction(x, y, multiplicity), len(y) = len(mp) = len(x)
DiscFuncs(X) ==
    UNION {{[x |-> xs, y |-> p[1], mp |-> p[2]] :
              p \in YSeqs(Len(xs)) \X [1..Len(xs) -> MpVals]} : xs \in X}

Funcs(k, X) ==
    IF k = "const" THEN ConstFuncs(X)
    ELSE IF k = "lin" THEN LinFuncs(X) ELSE DiscFuncs(X)

\* ------------------------------------------------------------------------
\* State
\* ------------------------------------------------------------------------

VARIABLES
    kind,     \* the class of the instances: "const", "lin" or "disc"
    profiles, \* the instances as they were constructed
    obj,      \* the instances now, a sequence of records of the class's arrays
    calls,    \* the calls done so far: <<i, j>> for obj[i].add(obj[j])
    pre,      \* obj as it was when the last call started
    op,       \* the last call: [name, self, form, arg]
    res,      \* what the last call returned or raised
    heap,     \* the arrays in memory, by address, where storage is followed
    ref,      \* the holders of arrays: for each, the address of each array
    frame     \* the local variables of a call that runs step by step

vars == <<kind, profiles, obj, calls, pre, op, res, heap, ref, frame>>

NoCall == [name |-> "new", self |-> 0, form |-> "none", arg |-> <<>>]

NoResult == [tag |-> "none", val |-> RZero]

\* no call runs step by step
NoFrame == [pc |-> "none"]

\* the instances are followed by value: no storage, no running call
ByValue == heap = <<>> /\ ref = <<>> /\ frame = NoFrame

\* ------------------------------------------------------------------------
\* Queries: integral and avrg of one instance
\* ------------------------------------------------------------------------

\* the query bounds tried: the grid of the breakpoints and one step outside
QueryBounds == (0 - 1)..(MaxX + 1)

\* the pairs given in a sequence of intervals
QueryPairs == {p \in (0..MaxX) \X (0..MaxX) : p[1] < p[2]}

\* the sequences of intervals tried: one pair, or two pairs in ascending
\* order that do not overlap
QuerySeqs ==
    {<<p>> : p \in QueryPairs}
    \cup {s \in QueryPairs \X QueryPairs : s[1][2] <= s[2][1]}

\* a call on instance i that changes no instance
Called(n, i, fm, a, r) ==
    /\ op = NoCall
    /\ op' = [name |-> n, self |-> i, form |-> fm, arg |-> a]
    /\ res' = r
    /\ pre' = obj
    /\ UNCHANGED <<kind, profiles, obj, calls, heap, ref, frame>>

CallIntegralAll ==
    \E i \in DOMAIN obj :
        Called("integral", i, "none", <<>>, IntegralAll(kind, obj[i]))

CallIntegral ==
    \E i \in DOMAIN obj, a \in QueryBounds, b \in QueryBounds :
        Called("integral", i, "pair", <<a, b>>, Integral(kind, obj[i], a, b))

CallAvrgAll ==
    \E i \in DOMAIN obj :
        Called("avrg", i, "none", <<>>, AvrgAll(kind, obj[i]))

CallAvrgPair ==
    \E i \in DOMAIN obj, a \in 0..MaxX, b \in 0..MaxX :
        Called("avrg", i, "pair", <<a, b>>, AvrgPair(kind, obj[i], a, b))

CallAvrgSeq ==
    \E i \in DOMAIN obj, ivals \in QuerySeqs :
        Called("avrg", i, "seq", ivals, AvrgSeq(kind, obj[i], ivals))

\* the caller takes the result; the next call can start
Return ==
    /\ op # NoCall
    /\ op' = NoCall
    /\ res' = NoResult
    /\ pre' = obj
    /\ UNCHANGED <<kind, profiles, obj, calls, heap, ref, frame>>

QueryInit ==
    /\ kind \in Kinds
    /\ obj \in {<<f>> : f \in Funcs(kind, XSeqs(MaxX))}
    /\ profiles = obj
    /\ calls = <<>>
    /\ pre = obj
    /\ op = NoCall
    /\ res = NoResult
    /\ ByValue

QueryNext ==
    \/ CallIntegralAll
    \/ CallIntegral
    \/ CallAvrgAll
    \/ CallAvrgPair
    \/ CallAvrgSeq
    \/ Return

QuerySpec == QueryInit /\ [][QueryNext]_vars

\* ------------------------------------------------------------------------
\* Three profiles a, b, c and the calls that combine them
\* ------------------------------------------------------------------------

\* the values given to the three profiles: row s holds those of profile s
ValueTable ==
    <<<<1, 2, 3, 4, 6>>, <<5, 0, 1, 3, 2>>, <<2, 7, 0, 1, 5>>>>

ValueAt(s, i) == ValueTable[s][((i - 1) % 5) + 1]

\* profile s of kind k on the breakpoints xs
ProfileOn(k, s, xs) ==
    IF k = "const"
    THEN [x |-> xs, y |-> [i \in 1..(Len(xs) - 1) |-> RInt(ValueAt(s, i))]]
    ELSE IF k = "lin"
    THEN [x  |-> xs,
          y1 |-> [i \in 1..(Len(xs) - 1) |-> RInt(ValueAt(s, i))],
          y2 |-> [i \in 1..(Len(xs) - 1) |-> RInt(ValueAt((s % 3) + 1, i))]]
    ELSE [x  |-> xs,
          y  |-> [i \in 1..Len(xs) |-> RInt(ValueAt(s, i))],
          mp |-> [i \in 1..Len(xs) |-> 1 + (ValueAt((s % 3) + 1, i) % 2)]]

\* the breakpoint arrays that span the whole grid
FullXSeqs == {xs \in XSeqs(MaxX) : xs[1] = 0 /\ Last(xs) = MaxX}

\* a and b span the grid, each with breakpoints of its own; c has any
\* breakpoints, so its domain may differ from theirs at either end
ProfilesInit ==
    /\ kind \in Kinds
    /\ \E xa \in FullXSeqs, xb \in FullXSeqs, xc \in XSeqs(MaxX) :
           profiles = <<ProfileOn(kind, 1, xa), ProfileOn(kind, 2, xb),
                        ProfileOn(kind, 3, xc)>>
    /\ obj = profiles
    /\ calls = <<>>
    /\ pre = obj
    /\ op = NoCall
    /\ res = NoResult
    /\ ByValue

\* obj[i].add(obj[j]).  Folding the profiles into one takes one merge less
\* than there are profiles; the model makes no more merges than that.
CallAdd ==
    \E i \in DOMAIN obj, j \in DOMAIN obj :
        /\ i # j
        /\ op = NoCall
        /\ Len(calls) < Len(obj) - 1
        /\ LET r == Add(kind, obj[i], obj[j])
           IN /\ res' = r.res
              /\ obj' = [obj EXCEPT ![i] = r.self]
              /\ calls' = IF r.res.tag = "ok" THEN Append(calls, <<i, j>>)
                          ELSE calls
        /\ op' = [name |-> "add", self |-> i, form |-> "obj", arg |-> j]
        /\ pre' = obj
        /\ UNCHANGED <<kind, profiles, heap, ref, frame>>

AddNext == CallAdd \/ Return

AddSpec == ProfilesInit /\ [][AddNext]_vars

\* the lists of profiles given to average_profile: one profile, two
\* different ones, the three in any order, one profile three times
ProfileLists ==
    {<<i>> : i \in 1..3}
    \cup {<<i, i, i>> : i \in 1..3}
    \cup {l \in (1..3) \X (1..3) : l[1] # l[2]}
    \cup {l \in (1..3) \X (1..3) \X (1..3) :
            l[1] # l[2] /\ l[1] # l[3] /\ l[2] # l[3]}

\* average_profile([obj[l[1]], obj[l[2]], ...])
CallAverageProfile ==
    \E l \in ProfileLists :
        /\ op = NoCall
        /\ op' = [name |-> "average_profile", self |-> l[1],
                  form |-> "list", arg |-> l]
        /\ res' = AverageProfile(kind, [n \in 1..Len(l) |-> obj[l[n]]])
        /\ pre' = obj
        /\ UNCHANGED <<kind, profiles, obj, calls, heap, ref, frame>>

AverageNext == CallAverageProfile \/ Return

AverageSpec == ProfilesInit /\ [][AverageNext]_vars

\* ------------------------------------------------------------------------
\* Reference values the claims compare with
\* ------------------------------------------------------------------------

\* the definite integral of the step function f over [a, b]: the sum over
\* the intervals of y[i] times the length of the overlap with [a, b]
ExactConstIntegral(f, a, b) ==
    NpSum([i \in 1..Len(f.y) |->
             RMul(f.y[i],
                  RInt(Max2(0, Min2(b, f.x[i + 1]) - Max2(a, f.x[i]))))])

\* the definite integral over [a, b] of the function that interpolates
\* linearly between (x[i], y1[i]) and (x[i+1], y2[i]) on each interval
ExactLinIntegral(f, a, b) ==
    NpSum([i \in 1..Len(f.y1) |->
             LET l == Max2(a, f.x[i])
                 h == Min2(b, f.x[i + 1])
                 at(t) == intermediate_value(f.x[i], f.x[i + 1],
                                             f.y1[i], f.y2[i], t)
             IN IF h <= l THEN RZero
                ELSE RMul(RMul(RInt(h - l), RHalf), RAdd(at(l), at(h)))])

\* the last call was integral([a, b]) on a function of kind k
IntegralCalled(k) ==
    kind = k /\ op.name = "integral" /\ op.form = "pair"

Self == obj[op.self]

\* the query interval [a, b] of the last call lies in the domain, a <= b
InDomain ==
    /\ PyIndex(Self.x, 0) <= op.arg[1]
    /\ op.arg[1] <= op.arg[2]
    /\ op.arg[2] <= PyIndex(Self.x, -1)

\* a breakpoint lies strictly between the bounds of the last call
BreakpointInside ==
    \E i \in 1..Len(Self.x) : op.arg[1] < Self.x[i] /\ Self.x[i] < op.arg[2]

\* ------------------------------------------------------------------------
\* C1
\* ------------------------------------------------------------------------

\* C1: for every piecewise-constant function and every [a, b] with
\* x[0] <= a <= b <= x[-1], integral([a, b]) returns the exact definite
\* integral of the step function over [a, b], also when no breakpoint lies
\* strictly between a and b.
C1_ConstIntegralExact ==
    (IntegralCalled("const") /\ InDomain)
        => res = Ok(ExactConstIntegral(Self, op.arg[1], op.arg[2]))

\* what the code does give: the exact integral whenever a breakpoint lies
\* strictly between a and b
C1_ConstIntegralExactAcrossBreakpoint ==
    (IntegralCalled("const") /\ InDomain /\ BreakpointInside)
        => res = Ok(ExactConstIntegral(Self, op.arg[1], op.arg[2]))

\* ------------------------------------------------------------------------
\* C2
\* ------------------------------------------------------------------------

\* C2: for every piecewise-linear function and every [a, b] with
\* x[0] <= a <= b <= x[-1], integral([a, b]) returns the exact integral of
\* the interpolated function over [a, b], also when no breakpoint lies
\* strictly inside [a, b].
C2_LinIntegralExact ==
    (IntegralCalled("lin") /\ InDomain)
        => res = Ok(ExactLinIntegral(Self, op.arg[1], op.arg[2]))

\* what the code does give: the exact integral whenever a breakpoint lies
\* strictly between a and b
C2_LinIntegralExactAcrossBreakpoint ==
    (IntegralCalled("lin") /\ InDomain /\ BreakpointInside)
        => res = Ok(ExactLinIntegral(Self, op.arg[1], op.arg[2]))

\* ------------------------------------------------------------------------
\* C3
\* ------------------------------------------------------------------------

\* the last call was avrg(None) and returned a number
AvrgAllReturned == op.name = "avrg" /\ op.form = "none" /\ res.tag = "ok"

DomainLength(f) == PyIndex(f.x, -1) - PyIndex(f.x, 0)

\* C3 as claimed: for every function of each of the three kinds,
\* integral(None) equals avrg(None) times the domain length x[-1]-x[0].
C3_IntegralIsAvrgTimesLength ==
    AvrgAllReturned
        => IntegralAll(kind, Self)
             = Ok(RMul(res.val, RInt(DomainLength(Self))))

\* C3 as amended: for the piecewise-constant and piecewise-linear kinds,
\* integral(None) equals avrg(None) times the domain length; for the discrete
\* kind avrg(None) is integral(None) itself, with no factor of the length.
C3_IntegralAvrgByKind ==
    (op.name = "avrg" /\ op.form = "none")
        => IF kind = "disc"
           THEN res = IntegralAll(kind, Self)
           ELSE /\ res.tag = "ok"
                /\ IntegralAll(kind, Self)
                     = Ok(RMul(res.val, RInt(DomainLength(Self))))

\* avrg(None) of a discrete function with a nonzero weighted mean on a
\* domain longer than 1: the case where the two readings differ
C3_Witness ==
    /\ AvrgAllReturned
    /\ kind = "disc"
    /\ res.val # RZero
    /\ DomainLength(Self) > 1

\* ------------------------------------------------------------------------
\* C6
\* ------------------------------------------------------------------------

\* C6: for every function kind, integral([a, b]) with a < x[0] or
\* b > x[-1] fails with the out-of-domain error (the assertion "Invalid
\* averaging interval") and returns no value.
C6_OutOfDomainRejected ==
    (op.name = "integral" /\ op.form = "pair"
       /\ (op.arg[1] < PyIndex(Self.x, 0) \/ op.arg[2] > PyIndex(Self.x, -1)))
        => res.tag = "AssertionError"

\* what the code does give: a left bound below x[0] fails the assertion for
\* every kind, a right bound above x[-1] fails it for the discrete kind, and
\* for the other two kinds raises some exception
C6_OutOfDomainRaises ==
    (op.name = "integral" /\ op.form = "pair")
        => /\ op.arg[1] < PyIndex(Self.x, 0) => res.tag = "AssertionError"
           /\ (op.arg[2] > PyIndex(Self.x, -1) /\ kind = "disc")
                => res.tag = "AssertionError"
           /\ op.arg[2] > PyIndex(Self.x, -1)
                => res.tag \in {"AssertionError", "IndexError", "ValueError"}

\* ------------------------------------------------------------------------
\* C7
\* ------------------------------------------------------------------------

\* the last call was integral([a, b]) on a piecewise-constant or
\* piecewise-linear function with a > b, both inside the domain
ReversedBounds ==
    /\ op.name = "integral" /\ op.form = "pair" /\ kind \in {"const", "lin"}
    /\ op.arg[1] > op.arg[2]
    /\ PyIndex(Self.x, 0) <= op.arg[2]
    /\ op.arg[1] <= PyIndex(Self.x, -1)

\* C7: for the piecewise-constant and piecewise-linear kinds,
\* integral([a, b]) with a > b, both inside the domain, fails instead of
\* returning a number.  The claim names the error, the out-of-domain one;
\* the formula asks only that the call raises, so what violates it is a
\* call that returns a number.
C7_ReversedBoundsRejected == ReversedBounds => res.tag # "ok"

\* what the code does give: the assertion never fails for reversed bounds
\* inside the domain; the call returns a number, or indexing raises
C7_ReversedBoundsPassAssertion ==
    ReversedBounds => res.tag \in {"ok", "IndexError", "ValueError"}

\* ------------------------------------------------------------------------
\* C9
\* ------------------------------------------------------------------------

\* integral([a, b]) of the instance of the last call, for each pair given
PairIntegrals(ivals) ==
    [i \in 1..Len(ivals) |-> PwIntegral(kind, Self, ivals[i][1], ivals[i][2])]

PairLengths(ivals) == [i \in 1..Len(ivals) |-> ivals[i][2] - ivals[i][1]]

AllOk(rs) == \A i \in 1..Len(rs) : rs[i].tag = "ok"

Vals(rs) == [i \in 1..Len(rs) |-> rs[i].val]

\* the mean of the per-interval averages integral([ai, bi]) / (bi - ai)
MeanOfAverages(ivals) ==
    RDiv(NpSum([i \in 1..Len(ivals) |->
                  RDiv(PairIntegrals(ivals)[i].val,
                       RInt(PairLengths(ivals)[i]))]),
         RInt(Len(ivals)))

\* C9: for the piecewise-constant and piecewise-linear kinds, avrg of a
\* sequence of pairs returns the sum of integral([ai, bi]) divided once by the
\* sum of the lengths bi - ai, and avrg of a single pair [a, b] with a # b
\* returns integral([a, b]) / (b - a).
C9_AvrgDividesTotals ==
    (op.name = "avrg" /\ kind \in {"const", "lin"})
        => /\ (op.form = "seq" /\ AllOk(PairIntegrals(op.arg))
                 /\ IntSum(PairLengths(op.arg)) # 0)
                => res = Ok(RDiv(NpSum(Vals(PairIntegrals(op.arg))),
                                 RInt(IntSum(PairLengths(op.arg)))))
           /\ (op.form = "pair" /\ op.arg[1] # op.arg[2]
                 /\ PwIntegral(kind, Self, op.arg[1], op.arg[2]).tag = "ok")
                => res = Ok(RDiv(PwIntegral(kind, Self,
                                            op.arg[1], op.arg[2]).val,
                                 RInt(op.arg[2] - op.arg[1])))

\* avrg of two pairs whose result differs from the mean of the two
\* per-interval averages
C9_Witness ==
    /\ op.name = "avrg" /\ op.form = "seq" /\ kind \in {"const", "lin"}
    /\ Len(op.arg) = 2
    /\ res.tag = "ok"
    /\ res.val # MeanOfAverages(op.arg)

\* ------------------------------------------------------------------------
\* C4
\* ------------------------------------------------------------------------

\* the last call was a.add(b) and it merged b into a
AddDone == op.name = "add" /\ res.tag = "ok"

\* a and b as they were before the call, and a after it
PreSelf == pre[op.self]

PreArg == pre[op.arg]

\* for a discrete function: the sums that integral(None) divides
InteriorY(f) == NpSum(PySlice(f.y, 1, -1))

InteriorMp(f) == IntSum(PySlice(f.mp, 1, -1))

\* C4 as claimed: for a and b of the same kind with the same domain
\* endpoints, after a.add(b) the whole-domain integral of a is the sum of the
\* whole-domain integrals a and b had before.
C4_AddSumsIntegrals ==
    (AddDone /\ IntegralAll(kind, PreSelf).tag = "ok"
       /\ IntegralAll(kind, PreArg).tag = "ok")
        => IntegralAll(kind, Self)
             = Ok(RAdd(IntegralAll(kind, PreSelf).val,
                       IntegralAll(kind, PreArg).val))

\* C4 as amended: after a.add(b), for the piecewise-constant and
\* piecewise-linear kinds the whole-domain integral of a is the sum of the two
\* integrals before; for the discrete kind the interior sums of y and of mp
\* are each the sum of the two before, so integral(None) is the quotient of
\* the summed y by the summed mp (the weighted mean), not the sum.
C4_AddIntegralByKind ==
    AddDone
        => IF kind = "disc"
           THEN /\ InteriorY(Self) = RAdd(InteriorY(PreSelf), InteriorY(PreArg))
                /\ InteriorMp(Self) = InteriorMp(PreSelf) + InteriorMp(PreArg)
                /\ IntegralAll(kind, Self)
                     = FloatDiv(RAdd(InteriorY(PreSelf), InteriorY(PreArg)),
                                RInt(InteriorMp(PreSelf) + InteriorMp(PreArg)))
           ELSE IntegralAll(kind, Self)
                  = Ok(RAdd(IntegralAll(kind, PreSelf).val,
                            IntegralAll(kind, PreArg).val))

\* a merge of two functions whose breakpoints differ, with a nonzero integral
C4_Witness ==
    /\ AddDone
    /\ PreSelf.x # PreArg.x
    /\ Self.x # PreSelf.x
    /\ IntegralAll(kind, Self).tag = "ok"
    /\ IntegralAll(kind, Self).val # RZero

\* ------------------------------------------------------------------------
\* C5
\* ------------------------------------------------------------------------

\* the last call was average_profile([p, p, p])
AverageOfThree ==
    /\ op.name = "average_profile"
    /\ Len(op.arg) = 3
    /\ op.arg[1] = op.arg[2] /\ op.arg[2] = op.arg[3]

\* C5 as claimed: for a profile p of any of the three kinds,
\* average_profile([p, p, p]) returns a profile q with p.almost_equal(q).
C5_AverageOfThreeAlmostEqual ==
    AverageOfThree
        => /\ res.tag = "ok"
           /\ AlmostEqual(kind, Self, res.val) = Ok(TRUE)

\* C5 as amended: for a piecewise-constant or piecewise-linear profile p,
\* average_profile([p, p, p]) returns a profile q with p.almost_equal(q); for
\* a discrete profile, q has the x and y of p and three times its mp, so
\* p.almost_equal(q) is false when some multiplicity of p is not 0.
C5_AverageOfThreeByKind ==
    AverageOfThree
        => /\ res.tag = "ok"
           /\ IF kind = "disc"
              THEN /\ AllClose(ArrFloat(Self.x), ArrFloat(res.val.x)) = "true"
                   /\ AllClose(Self.y, res.val.y) = "true"
                   /\ res.val.mp = [i \in 1..Len(Self.mp) |-> 3 * Self.mp[i]]
                   /\ (\E i \in 1..Len(Self.mp) : Self.mp[i] # 0)
                        => AlmostEqual(kind, Self, res.val) = Ok(FALSE)
              ELSE AlmostEqual(kind, Self, res.val) = Ok(TRUE)

\* average_profile([p, p, p]) of a profile with two intervals or more
C5_Witness ==
    /\ AverageOfThree
    /\ res.tag = "ok"
    /\ Len(Self.x) > 2

\* ------------------------------------------------------------------------
\* C8
\* ------------------------------------------------------------------------

\* C8: for every function kind, a.add(b) with a.x[0] # b.x[0] or
\* a.x[-1] # b.x[-1] fails with the domain-mismatch error (the assertion
\* "The functions have different intervals") and leaves the arrays of a and
\* of b, and of every other instance, as they were.
C8_MismatchRejected ==
    (op.name = "add" /\ ~SameEnds(PreSelf, PreArg))
        => /\ res.tag = "AssertionError"
           /\ obj = pre

\* a.add(b) where only the last breakpoints differ
C8_Witness ==
    /\ op.name = "add"
    /\ PyIndex(PreSelf.x, 0) = PyIndex(PreArg.x, 0)
    /\ PyIndex(PreSelf.x, -1) # PyIndex(PreArg.x, -1)
    /\ res.tag = "AssertionError"

\* ------------------------------------------------------------------------
\* C10
\* ------------------------------------------------------------------------

\* how many times each profile as constructed has been merged into each
\* instance, after the merges cs
RECURSIVE CountsAfter(_, _)
CountsAfter(cs, h) ==
    IF cs = <<>> THEN h
    ELSE CountsAfter(Tail(cs),
            [h EXCEPT ![cs[1][1]] =
                [k \in DOMAIN h |-> h[cs[1][1]][k] + h[cs[1][2]][k]]])

Counts ==
    CountsAfter(calls, [i \in DOMAIN obj |->
                          [k \in DOMAIN obj |-> IF i = k THEN 1 ELSE 0]])

\* the profiles counted in c, in the order of the list, each as often as
\* it is counted
RECURSIVE Listed(_, _)
Listed(c, k) ==
    IF k > Len(c) THEN <<>>
    ELSE [n \in 1..c[k] |-> k] \o Listed(c, k + 1)

\* the profiles of the list l as constructed, folded from left to right
FoldLeft(l) ==
    AverageFold(kind, profiles[l[1]],
                [n \in 1..(Len(l) - 1) |-> profiles[l[n + 1]]]).self

\* C10: for all three kinds and functions sharing domain endpoints, merging
\* is commutative and associative: whatever the order and the grouping of the
\* add calls that merged profiles into the receiver of an add, the receiver
\* then has the breakpoints and values of the left-to-right fold of those
\* profiles in the order a, b, c.
C10_MergeOrderFree ==
    AddDone => obj[op.self] = FoldLeft(Listed(Counts[op.self], 1))

\* a.add(b) after b.add(c), the grouping a + (b + c), of three profiles
\* with three different breakpoint arrays
C10_Witness ==
    /\ AddDone
    /\ calls = <<<<2, 3>>, <<1, 2>>>>
    /\ profiles[1].x # profiles[2].x
    /\ profiles[2].x # profiles[3].x
    /\ profiles[1].x # profiles[3].x
    /\ Len(profiles[1].x) > 2 /\ Len(profiles[2].x) > 2

\* ------------------------------------------------------------------------
\* C14
\* ------------------------------------------------------------------------

\* the number of points of f at or below v, and the number below v
PointsUpTo(f, v) == Cardinality({i \in DOMAIN f.x : f.x[i] <= v})

PointsBelow(f, v) == Cardinality({i \in DOMAIN f.x : f.x[i] < v})

\* sum of y over the index range [lo, hi) divided by the sum of mp there
WeightedMean(f, lo, hi) ==
    FloatDiv(NpSum(PySlice(f.y, lo, hi)), RInt(IntSum(PySlice(f.mp, lo, hi))))

\* the last call was integral([a, b]) of a discrete function
DiscIntegralCalled ==
    op.name = "integral" /\ op.form = "pair" /\ kind = "disc"

\* the claim as stated: both index bounds are found with the right-side
\* search (start index = number of points <= a, end index = number of
\* points <= b), so a returned value is the weighted mean over that range
C14_DiscIntegralRightRight ==
    (DiscIntegralCalled /\ res.tag = "ok")
        => res = WeightedMean(Self, PointsUpTo(Self, op.arg[1]),
                              PointsUpTo(Self, op.arg[2]))

\* C14: DiscreteFunction.integral([a, b]) fails the assertion exactly when
\* a < x[0] or b > x[-1]; otherwise it sums y and mp over the half-open
\* index range from the number of points <= a (right-side search) to the
\* number of points < b (left-side search) and divides once, so a point
\* lying exactly on the right bound b is left out.
C14_DiscIntegralRightLeft ==
    DiscIntegralCalled
        => IF op.arg[1] < PyIndex(Self.x, 0) \/ op.arg[2] > PyIndex(Self.x, -1)
           THEN res = Raise("AssertionError")
           ELSE res = WeightedMean(Self, PointsUpTo(Self, op.arg[1]),
                                   PointsBelow(Self, op.arg[2]))

\* integral([a, b]) returned a number although a point with a value other
\* than 0 lies exactly on b, and the right-side search for b would have
\* given another number
C14_Witness ==
    /\ DiscIntegralCalled
    /\ res.tag = "ok"
    /\ op.arg[1] < op.arg[2]
    /\ \E i \in DOMAIN Self.x :
           Self.x[i] = op.arg[2] /\ Self.y[i] # RZero
    /\ res # WeightedMean(Self, PointsUpTo(Self, op.arg[1]),
                          PointsUpTo(Self, op.arg[2]))

\* ------------------------------------------------------------------------
\* Queries with bounds between the breakpoints: integral([a2/2, b2/2])
\* ------------------------------------------------------------------------

\* twice each entry
Doubled(xs) == [i \in DOMAIN xs |-> 2 * xs[i]]

\* PieceWiseConstFunc.integral([a2/2, b2/2]).  The breakpoints and the
\* bounds are doubled so that they stay integers: searchsorted only compares
\* them, and every term of the sum is a difference of them times a value, so
\* the doubled call gives twice the result (doubling is exact in binary
\* floating point as well).
HalfIntegral(f, a2, b2) ==
    LET r == ConstIntegral([f EXCEPT !.x = Doubled(f.x)], a2, b2)
    IN IF r.tag = "ok" THEN Ok(RDiv(r.val, RInt(2))) ELSE r

\* the values of the piecewise-constant functions queried
StepVals == {1, 2, 3}

StepFuncs ==
    UNION {{[x |-> xs, y |-> ys] :
              ys \in [1..(Len(xs) - 1) -> {RInt(v) : v \in StepVals}]} :
           xs \in XSeqs(MaxX)}

HalfGridInit ==
    /\ kind = "const"
    /\ obj \in {<<f>> : f \in StepFuncs}
    /\ profiles = obj
    /\ calls = <<>>
    /\ pre = obj
    /\ op = NoCall
    /\ res = NoResult
    /\ ByValue

\* op.arg holds twice the bounds
CallIntegralHalf ==
    \E i \in DOMAIN obj, a2 \in 0..(2 * MaxX), b2 \in 0..(2 * MaxX) :
        Called("integral", i, "half", <<a2, b2>>,
               HalfIntegral(obj[i], a2, b2))

HalfGridNext == CallIntegralHalf \/ Return

HalfGridSpec == HalfGridInit /\ [][HalfGridNext]_vars

\* ------------------------------------------------------------------------
\* C12
\* ------------------------------------------------------------------------

\* the last call was integral([0.5, 2.5]) of the piecewise-constant
\* function with x = [0, 1, 2, 3] and y = [1, 2, 3]
ExampleIntegralCalled ==
    /\ kind = "const" /\ op.name = "integral" /\ op.form = "half"
    /\ Self = [x |-> <<0, 1, 2, 3>>, y |-> <<RInt(1), RInt(2), RInt(3)>>]
    /\ op.arg = <<1, 5>>

\* the claim as stated: the call returns 3.5
C12_ExampleIntegralIsThreeAndAHalf ==
    ExampleIntegralCalled => res = Ok(Rat(7, 2))

\* C12: for the piecewise-constant function with x = [0, 1, 2, 3] and
\* y = [1, 2, 3], integral([0.5, 2.5]) returns 0.5*1 + 1*2 + 0.5*3 = 4.
C12_ExampleIntegralIsFour ==
    ExampleIntegralCalled => res = Ok(RInt(4))

\* the call of the example has returned a number
C12_Witness == ExampleIntegralCalled /\ res.tag = "ok"

\* ------------------------------------------------------------------------
\* DiscreteFunction.get_plottable_data(averaging_window_size), one step of
\* the model for each pass through the for loop and the two while loops.
\* frame holds its locals: i, j, y, mp_r, mp_l, expected_mp, y_plot, and
\* for each point the window of the points read for it and the divisor used
\* (window is kept for the properties; the code has no such array).
\* ------------------------------------------------------------------------

\* the most points a function given to get_plottable_data has
MaxPoints == 5

\* the largest averaging_window_size tried
MaxWindow == 2

\* the body of either while loop, always taking the neighbour's whole value
Accumulate_WholeValue(f, expected_mp, y, mp_s, j) ==
    [tag |-> "ok",
     y   |-> RAdd(y, PyIndex(f.y, j)),
     mp  |-> mp_s + PyIndex(f.mp, j),
     brk |-> ~(mp_s + PyIndex(f.mp, j) < expected_mp)]

\* the body of either while loop, taking nothing from the neighbour that
\* reaches the wanted multiplicity
Accumulate_NoFraction(f, expected_mp, y, mp_s, j) ==
    IF mp_s + PyIndex(f.mp, j) < expected_mp
    THEN [tag |-> "ok", y |-> RAdd(y, PyIndex(f.y, j)),
          mp |-> mp_s + PyIndex(f.mp, j), brk |-> FALSE]
    ELSE [tag |-> "ok", y |-> y, mp |-> expected_mp, brk |-> TRUE]

\* the body of either while loop at index j, with the running value y and
\* the running multiplicity mp_s of that side: the whole neighbour while the
\* wanted multiplicity is not reached, else a fraction of it and break
Accumulate(f, expected_mp, y, mp_s, j) ==
    IF ~ValidIndex(f.mp, j) \/ ~ValidIndex(f.y, j)
    THEN [tag |-> "IndexError", y |-> y, mp |-> mp_s, brk |-> TRUE]
    ELSE IF mp_s + PyIndex(f.mp, j) < expected_mp
    THEN [tag |-> "ok",
          y   |-> RAdd(y, PyIndex(f.y, j)),
          mp  |-> mp_s + PyIndex(f.mp, j),
          brk |-> FALSE]
    ELSE [tag |-> "ok",
          y   |-> RAdd(y, RDiv(RMul(PyIndex(f.y, j), RInt(expected_mp - mp_s)),
                               RInt(PyIndex(f.mp, j)))),
          mp  |-> mp_s + (expected_mp - mp_s),
          brk |-> TRUE]

\* y = [0, 1, ..., 1, 0] and y = [0, 1, 2, ...] on n points
PlateauY(n) == [p \in 1..n |-> RInt(IF p = 1 \/ p = n THEN 0 ELSE 1)]

RampY(n) == [p \in 1..n |-> RInt(p - 1)]

\* DiscreteFunction(x, y, multiplicity) on the points 0, 1, ..., n - 1
PlotFuncs ==
    UNION {{[x |-> [p \in 1..n |-> p - 1], y |-> ys, mp |-> mps] :
              ys \in {PlateauY(n), RampY(n)}, mps \in [1..n -> MpVals]} :
           n \in 2..MaxPoints}

PlotInit ==
    /\ kind = "disc"
    /\ obj \in {<<f>> : f \in PlotFuncs}
    /\ profiles = obj
    /\ calls = <<>>
    /\ pre = obj
    /\ op = NoCall
    /\ res = NoResult
    /\ ByValue

\* obj[1].get_plottable_data(k): with k = 0 it returns 1.0*x and 1.0*y/mp;
\* with k > 0 it sets expected_mp and y_plot and enters the for loop
CallGetPlottableData ==
    \E k \in 0..MaxWindow :
        LET f == obj[1]
            n == Len(f.y)
        IN /\ op = NoCall
           /\ frame = NoFrame
           /\ op' = [name |-> "get_plottable_data", self |-> 1,
                     form |-> "window", arg |-> k]
           /\ pre' = obj
           /\ IF k > 0
              THEN /\ frame' = [pc |-> "for", i |-> 0, j |-> 0, y |-> RZero,
                                mp_r |-> 0, mp_l |-> 0,
                                expected_mp |-> (k + 1) * PyIndex(f.mp, 0),
                                y_plot |-> [p \in 1..n |-> RZero],
                                window |-> [p \in 1..n |->
                                    [lo |-> p - 1, hi |-> p - 1, div |-> 0]]]
                   /\ res' = NoResult
              ELSE /\ frame' = [pc |-> "done"]
                   /\ res' = Ok(<<ArrFloat(f.x),
                                  [p \in 1..n |->
                                      RDiv(f.y[p], RInt(f.mp[p]))]>>)
           /\ UNCHANGED <<kind, profiles, obj, calls, heap, ref>>

\* a step of the call: its locals and its result after the step
Stepped(fr, r) == [frame |-> fr, res |-> r]

\* for i in xrange(len(y_plot)): the loop ends and the call returns, or the
\* point has the wanted multiplicity by itself, or the look to the right
\* starts
ForPass ==
    LET f == obj[1]
        i == frame.i
    IN IF i >= Len(frame.y_plot)
       THEN Stepped([frame EXCEPT !.pc = "done"],
                    Ok(<<ArrFloat(f.x), frame.y_plot>>))
       ELSE IF PyIndex(f.mp, i) >= frame.expected_mp
       THEN Stepped([frame EXCEPT
                        !.y_plot[i + 1] =
                            RDiv(PyIndex(f.y, i), RInt(PyIndex(f.mp, i))),
                        !.window[i + 1].div = PyIndex(f.mp, i),
                        !.i = i + 1],
                    res)
       ELSE Stepped([frame EXCEPT !.y = PyIndex(f.y, i),
                                  !.mp_r = PyIndex(f.mp, i),
                                  !.j = i + 1,
                                  !.pc = "right"],
                    res)

ForStep ==
    /\ frame.pc = "for"
    /\ frame' = ForPass.frame
    /\ res' = ForPass.res
    /\ UNCHANGED <<kind, profiles, obj, calls, pre, op, heap, ref>>

\* while j < len(y_plot): one pass; after the loop mp_l and j are set for
\* the look to the left
RightPass ==
    LET f == obj[1]
        i == frame.i
        j == frame.j
        a == Accumulate(f, frame.expected_mp, frame.y, frame.mp_r, j)
    IN IF ~(j < Len(frame.y_plot))
       THEN Stepped([frame EXCEPT !.window[i + 1].hi = j - 1,
                                  !.mp_l = PyIndex(f.mp, i),
                                  !.j = i - 1,
                                  !.pc = "left"],
                    res)
       ELSE IF a.tag # "ok"
       THEN Stepped([frame EXCEPT !.pc = "done"], Raise(a.tag))
       ELSE IF a.brk
       THEN Stepped([frame EXCEPT !.y = a.y,
                                  !.mp_r = a.mp,
                                  !.window[i + 1].hi = j,
                                  !.mp_l = PyIndex(f.mp, i),
                                  !.j = i - 1,
                                  !.pc = "left"],
                    res)
       ELSE Stepped([frame EXCEPT !.y = a.y, !.mp_r = a.mp, !.j = j + 1],
                    res)

RightStep ==
    /\ frame.pc = "right"
    /\ frame' = RightPass.frame
    /\ res' = RightPass.res
    /\ UNCHANGED <<kind, profiles, obj, calls, pre, op, heap, ref>>

\* the locals after the look to the left, with y_plot[i] assigned:
\* y_plot[i] = y/(mp_l+mp_r-self.mp[i])
PointDone(f, y, mp_l, lo) ==
    LET i   == frame.i
        div == mp_l + frame.mp_r - PyIndex(f.mp, i)
    IN [frame EXCEPT !.y = y,
                     !.mp_l = mp_l,
                     !.window[i + 1].lo = lo,
                     !.window[i + 1].div = div,
                     !.y_plot[i + 1] = RDiv(y, RInt(div)),
                     !.i = i + 1,
                     !.pc = "for"]

\* while j >= 0: one pass; after the loop y_plot[i] is assigned
LeftPass ==
    LET f == obj[1]
        j == frame.j
        a == Accumulate(f, frame.expected_mp, frame.y, frame.mp_l, j)
    IN IF ~(j >= 0)
       THEN Stepped(PointDone(f, frame.y, frame.mp_l, j + 1), res)
       ELSE IF a.tag # "ok"
       THEN Stepped([frame EXCEPT !.pc = "done"], Raise(a.tag))
       ELSE IF a.brk
       THEN Stepped(PointDone(f, a.y, a.mp, j), res)
       ELSE Stepped([frame EXCEPT !.y = a.y, !.mp_l = a.mp, !.j = j - 1],
                    res)

LeftStep ==
    /\ frame.pc = "left"
    /\ frame' = LeftPass.frame
    /\ res' = LeftPass.res
    /\ UNCHANGED <<kind, profiles, obj, calls, pre, op, heap, ref>>

\* the caller takes the arrays returned; the next call can start
PlotReturn ==
    /\ frame.pc = "done"
    /\ frame' = NoFrame
    /\ op' = NoCall
    /\ res' = NoResult
    /\ pre' = obj
    /\ UNCHANGED <<kind, profiles, obj, calls, heap, ref>>

PlotNext ==
    \/ CallGetPlottableData
    \/ ForStep
    \/ RightStep
    \/ LeftStep
    \/ PlotReturn

PlotSpec == PlotInit /\ [][PlotNext]_vars

\* ------------------------------------------------------------------------
\* C13
\* ------------------------------------------------------------------------

\* get_plottable_data(1) of the discrete function x = [0, 1, 2, 3, 4],
\* y = [0, 1, 1, 1, 0], mp = [1, 1, 1, 1, 1] has returned
ExamplePlotReturned ==
    /\ op.name = "get_plottable_data"
    /\ op.arg = 1
    /\ obj[1] = [x |-> <<0, 1, 2, 3, 4>>, y |-> PlateauY(5),
                 mp |-> <<1, 1, 1, 1, 1>>]
    /\ frame.pc = "done"
    /\ res.tag = "ok"

\* y[j]/mp[j], the value at index j without smoothing
Unsmoothed(f, j) == RDiv(PyIndex(f.y, j), RInt(PyIndex(f.mp, j)))

\* p < q for rationals with positive denominators
RLess(p, q) == p[1] * q[2] < q[1] * p[2]

\* the value at index 2 comes from one neighbour on each side, with
\* divisor 3
ExampleWindow ==
    /\ frame.expected_mp = 2
    /\ frame.window[3] = [lo |-> 1, hi |-> 3, div |-> 3]

\* the claim as stated: the value at index 2 lies strictly between the
\* unsmoothed values of indices 1 and 3
C13_SmoothedStrictlyBetween ==
    ExamplePlotReturned
        => /\ ExampleWindow
           /\ \/ /\ RLess(Unsmoothed(obj[1], 1), PyIndex(res.val[2], 2))
                 /\ RLess(PyIndex(res.val[2], 2), Unsmoothed(obj[1], 3))
              \/ /\ RLess(Unsmoothed(obj[1], 3), PyIndex(res.val[2], 2))
                 /\ RLess(PyIndex(res.val[2], 2), Unsmoothed(obj[1], 1))

\* C13: for the discrete function x = [0, 1, 2, 3, 4], y = [0, 1, 1, 1, 0],
\* mp = [1, 1, 1, 1, 1] and averaging window size 1 (expected_mp = 2),
\* get_plottable_data gives at index 2 a value computed from one neighbour
\* on each side with total multiplicity 3, and that value is 1, equal to
\* the unsmoothed values y[j]/mp[j] of both its neighbours (indices 1 and
\* 3), which are 1 as well.
C13_SmoothedEqualsNeighbours ==
    ExamplePlotReturned
        => /\ ExampleWindow
           /\ PyIndex(res.val[2], 2) = RInt(1)
           /\ Unsmoothed(obj[1], 1) = RInt(1)
           /\ Unsmoothed(obj[1], 3) = RInt(1)

\* the call of the example has returned its arrays
C13_Witness == ExamplePlotReturned /\ Len(res.val[2]) = 5

\* ------------------------------------------------------------------------
\* C15
\* ------------------------------------------------------------------------

\* get_plottable_data with a window size above 0 was called
SmoothingCalled == op.name = "get_plottable_data" /\ op.arg > 0

\* the divisor the claim gives for point i (counted from 0)
ClaimedDivisor(f, expected_mp, i) ==
    Min2(expected_mp,
         PyIndex(f.mp, i) + IntSum(PySlice(f.mp, i + 1, Len(f.mp))))
    + Min2(expected_mp, PyIndex(f.mp, i) + IntSum(PySlice(f.mp, 0, i)))
    - PyIndex(f.mp, i)

\* what holds in every state of the call: no index is outside the arrays,
\* a look to the right stays right of i and inside the array, one to the
\* left stays left of i and at or above 0, the running multiplicities do
\* not exceed expected_mp, and every point done with mp[i] < expected_mp
\* has the divisor of the claim and a window inside the array
SmoothingInBounds ==
    LET f == obj[1]
        n == Len(f.y)
    IN SmoothingCalled
        => /\ res.tag \in {"none", "ok"}
           /\ frame.pc = "right"
                => /\ frame.i < frame.j /\ frame.j <= n
                   /\ frame.mp_r <= frame.expected_mp
           /\ frame.pc = "left"
                => /\ 0 - 1 <= frame.j /\ frame.j < frame.i
                   /\ frame.mp_r <= frame.expected_mp
                   /\ frame.mp_l <= frame.expected_mp
           /\ \A p \in 0..(frame.i - 1) :
                PyIndex(f.mp, p) < frame.expected_mp
                    => /\ frame.window[p + 1].div
                            = ClaimedDivisor(f, frame.expected_mp, p)
                       /\ 0 <= frame.window[p + 1].lo
                       /\ frame.window[p + 1].lo <= p
                       /\ p <= frame.window[p + 1].hi
                       /\ frame.window[p + 1].hi <= n - 1

\* how far the call is from returning: the points still to do, and within
\* a point the look to the right before the look to the left, each by the
\* indices it has still to pass.  It is below 0 once the call is over.
Variant(fr) ==
    IF fr.pc \notin {"for", "right", "left"} THEN 0 - 1
    ELSE LET n == Len(fr.y_plot)
             w == 2 * n + 4
         IN IF fr.pc = "for" THEN (n - fr.i) * w
            ELSE IF fr.pc = "right" THEN (n - fr.i) * w - (fr.j - fr.i)
            ELSE (n - fr.i) * w - (n + 1) - (fr.i - fr.j)

\* C15: in get_plottable_data with window size k > 0 and
\* expected_mp = (k+1)*mp[0], for every point i with mp[i] < expected_mp
\* the loops index nothing outside the arrays, each side's running
\* multiplicity never exceeds expected_mp, the divisor is
\* min(expected_mp, mp[i] + sum of mp right of i)
\* + min(expected_mp, mp[i] + sum of mp left of i) - mp[i], and a side
\* that runs off the end of the array raises no error; the loops
\* terminate: every step of the call brings it nearer to its return.
C15_SmoothingBoundedAndTerminates ==
    /\ []SmoothingInBounds
    /\ [][frame.pc \in {"for", "right", "left"}
            => Variant(frame) >= 0 /\ Variant(frame') < Variant(frame)]_vars

\* a point whose window ran off both ends of the array before either side
\* reached expected_mp, in a call that returned
C15_Witness ==
    /\ SmoothingCalled
    /\ frame.pc = "done"
    /\ res.tag = "ok"
    /\ \E p \in 0..(Len(obj[1].y) - 1) :
          /\ PyIndex(obj[1].mp, p) < frame.expected_mp
          /\ frame.window[p + 1].lo = 0
          /\ frame.window[p + 1].hi = Len(obj[1].y) - 1
          /\ frame.window[p + 1].div < 2 * frame.expected_mp - PyIndex(obj[1].mp, p)

\* ------------------------------------------------------------------------
\* Storage: the arrays of the instances as numpy arrays in memory.
\* heap[a] is the array at address a; ref.inst[i] gives, for instance i, the
\* address of each of its arrays, and ref.caller the addresses of the arrays
\* the caller gave to the constructor of instance 1 and still holds.  obj is
\* what the instances' arrays hold.  calls logs <<name, i, j>> here.
\* ------------------------------------------------------------------------

\* the most calls that change or average instances in one behaviour
MaxCalls == 2

\* the arrays of an instance, in the order of the constructor's parameters
Fields(k) ==
    IF k = "const" THEN <<"x", "y">>
    ELSE IF k = "lin" THEN <<"x", "y1", "y2">> ELSE <<"x", "y", "mp">>

\* the arrays a holder's addresses point to
Deref(h, at) == [fld \in DOMAIN at |-> h[at[fld]]]

\* Class(x, y, ...): self.x = np.array(x), ..., each a new array with the
\* argument's entries
New(k, h, v) ==
    [heap |-> h \o [p \in 1..Len(Fields(k)) |-> v[Fields(k)[p]]],
     at   |-> [fld \in DOMAIN v |->
                  Len(h) + (CHOOSE p \in 1..Len(Fields(k)) :
                                Fields(k)[p] = fld)]]

\* a copy that keeps the arrays of the original
HeapCopy_Shared(k, h, at) == [heap |-> h, at |-> at]

\* copy(): return Class(self.x, self.y, ...)
HeapCopy(k, h, at) == New(k, h, Deref(h, at))

\* mul_scalar(fac): self.y *= fac, in the array itself
HeapMulScalar(k, h, at, fac) ==
    IF k = "lin"
    THEN [h EXCEPT ![at.y1] = ArrScale(h[at.y1], fac),
                   ![at.y2] = ArrScale(h[at.y2], fac)]
    ELSE [h EXCEPT ![at.y] = ArrScale(h[at.y], fac)]

\* the receiver of an add whose backend returned the arrays of r.self: if the
\* assertions raised, nothing changes; else self.x, self.y, ... are bound to
\* the arrays returned, which are arrays of the backend's own
Bound(k, h, at, r) ==
    IF r.res.tag # "ok" THEN [heap |-> h, at |-> at, res |-> r.res]
    ELSE [heap |-> New(k, h, r.self).heap,
          at   |-> New(k, h, r.self).at,
          res  |-> r.res]

\* add(f) on the instance with arrays at, f having arrays atf
HeapAdd(k, h, at, atf) == Bound(k, h, at, Add(k, Deref(h, at), Deref(h, atf)))

\* the instances once instance c, newly made, is the one avrg_profile names
Named(insts, c) ==
    [heap |-> c.heap,
     inst |-> Append(insts, c.at),
     self |-> Len(insts) + 1,
     res  |-> None]

\* average_profile starting from profiles[0] itself
AverageStart_NoCopy(k, h, insts, o) ==
    [heap |-> h, inst |-> insts, self |-> o, res |-> None]

\* avrg_profile = profiles[0].copy(): a new instance after those in insts
AverageStart(k, h, insts, o) == Named(insts, HeapCopy(k, h, insts[o]))

\* avrg_profile after one add of the fold, a being what the add made of it
Folded(st, a) ==
    [heap |-> a.heap,
     inst |-> [st.inst EXCEPT ![st.self] = a.at],
     self |-> st.self,
     res  |-> a.res]

\* for i in xrange(1, len(profiles)): avrg_profile.add(profiles[i])
\* st.self is the instance avrg_profile names, rest the instances to add
RECURSIVE HeapAverageFold(_, _, _)
HeapAverageFold(k, st, rest) ==
    IF rest = <<>> \/ st.res.tag # "ok" THEN st
    ELSE HeapAverageFold(k,
             Folded(st, HeapAdd(k, st.heap, st.inst[st.self],
                                st.inst[rest[1]])),
             Tail(rest))

\* avrg_profile.mul_scalar(1.0/len(profiles)); return avrg_profile
\* if the fold raised, the exception leaves the call instead
Scaled(k, r, n) ==
    IF r.res.tag # "ok"
    THEN [heap |-> r.heap, inst |-> r.inst, res |-> r.res]
    ELSE [heap |-> HeapMulScalar(k, r.heap, r.inst[r.self], Rat(1, n)),
          inst |-> r.inst,
          res  |-> Ok(Deref(HeapMulScalar(k, r.heap, r.inst[r.self],
                                          Rat(1, n)), r.inst[r.self]))]

\* average_profile(profiles), profiles naming the instances l[1], l[2], ...:
\* the memory and the instances after the call, and the profile returned
\* (by value) or the exception raised
HeapAverageProfile(k, h, insts, l) ==
    IF ~(Len(l) > 1)
    THEN [heap |-> h, inst |-> insts, res |-> Raise("AssertionError")]
    ELSE Scaled(k, HeapAverageFold(k, AverageStart(k, h, insts, l[1]),
                                   Tail(l)), Len(l))

\* the addresses a holder has
Held(at) == {at[fld] : fld \in DOMAIN at}

\* memory once the arrays after the last one still held are freed
Free(h, rf) ==
    LET held == Held(rf.caller)
                    \cup UNION {Held(rf.inst[i]) : i \in DOMAIN rf.inst}
    IN SubSeq(h, 1, CHOOSE a \in held : \A c \in held : c <= a)

\* what the instances' arrays hold
View(h, rf) == [i \in DOMAIN rf.inst |-> Deref(h, rf.inst[i])]

\* the three profiles constructed: a on the whole grid, from arrays the
\* caller keeps; b with the same domain; c with another last breakpoint
StorageProfiles(k) ==
    <<ProfileOn(k, 1, [p \in 1..(MaxX + 1) |-> p - 1]),
      ProfileOn(k, 2, <<0, MaxX>>),
      ProfileOn(k, 3, <<0, MaxX - 1>>)>>

StorageInit ==
    /\ kind \in Kinds
    /\ LET ps == StorageProfiles(kind)
           ca == New(kind, <<>>, ps[1])
           a  == New(kind, ca.heap, Deref(ca.heap, ca.at))
           b  == New(kind, a.heap, ps[2])
           c  == New(kind, b.heap, ps[3])
       IN /\ heap = c.heap
          /\ ref = [caller |-> ca.at, inst |-> <<a.at, b.at, c.at>>]
          /\ obj = ps
    /\ profiles = obj
    /\ calls = <<>>
    /\ pre = obj
    /\ op = NoCall
    /\ res = NoResult
    /\ frame = NoFrame

\* a call that leaves memory as h and the holders as rf
Stored(h, rf, n, i, j, fm, a, r) ==
    /\ heap' = h
    /\ ref' = rf
    /\ obj' = View(h, rf)
    /\ pre' = obj
    /\ calls' = Append(calls, <<n, i, j>>)
    /\ op' = [name |-> n, self |-> i, form |-> fm, arg |-> a]
    /\ res' = r
    /\ UNCHANGED <<kind, profiles, frame>>

\* q = obj[1].copy(), once: q becomes the last instance
DoCopy ==
    /\ Len(ref.inst) = Len(profiles)
    /\ LET c == HeapCopy(kind, heap, ref.inst[1])
           q == Len(ref.inst) + 1
       IN Stored(c.heap, [ref EXCEPT !.inst = Append(ref.inst, c.at)],
                 "copy", 1, q, "none", q, None)

\* obj[i].mul_scalar(2.0)
DoMulScalar ==
    \E i \in DOMAIN ref.inst :
        /\ Len(SelectSeq(calls, LAMBDA c : c[1] # "copy")) < MaxCalls
        /\ Stored(HeapMulScalar(kind, heap, ref.inst[i], RInt(2)), ref,
                  "mul_scalar", i, 0, "fac", RInt(2), None)

\* the receiver i of an add is bound to what the add made of it
Rebound(i, j, r) ==
    Stored(r.heap, [ref EXCEPT !.inst[i] = r.at], "add", i, j, "obj", j, r.res)

\* obj[i].add(obj[j])
DoAdd ==
    \E i \in DOMAIN ref.inst, j \in DOMAIN ref.inst :
        /\ i # j
        /\ Len(SelectSeq(calls, LAMBDA c : c[1] # "copy")) < MaxCalls
        /\ Rebound(i, j, HeapAdd(kind, heap, ref.inst[i], ref.inst[j]))

\* the caller changes the first entry of one of the arrays it gave to the
\* constructor of instance 1
DoCallerWrite ==
    \E p \in 1..Len(Fields(kind)) :
        /\ Len(SelectSeq(calls, LAMBDA c : c[1] # "copy")) < MaxCalls
        /\ LET a == ref.caller[Fields(kind)[p]]
               v == IF Fields(kind)[p] \in {"x", "mp"} THEN heap[a][1] + 1
                    ELSE RAdd(heap[a][1], RInt(1))
           IN Stored([heap EXCEPT ![a][1] = v], ref,
                     "write", 0, p, "caller", p, None)

\* the lists given to average_profile: two profiles either way, one with
\* another domain first or last, one profile three times, three profiles
StorageLists ==
    {<<1, 2>>, <<2, 1>>, <<3, 1>>, <<1, 1, 1>>, <<1, 2, 3>>, <<2, 1, 2>>}

\* the holders after a call that worked on the instances insts: those made
\* during the call are dropped with it
Kept(insts) == [ref EXCEPT !.inst = SubSeq(insts, 1, Len(ref.inst))]

\* average_profile has left memory and instances as r; the profile returned
\* is kept by value in res
Averaged(l, r) ==
    Stored(Free(r.heap, Kept(r.inst)), Kept(r.inst),
           "average_profile", l[1], 0, "list", l, r.res)

\* average_profile([obj[l[1]], obj[l[2]], ...])
DoAverageProfile ==
    \E l \in StorageLists :
        /\ Len(SelectSeq(calls, LAMBDA c : c[1] # "copy")) < MaxCalls
        /\ Averaged(l, HeapAverageProfile(kind, heap, ref.inst, l))

StorageNext ==
    \/ DoCopy
    \/ DoMulScalar
    \/ DoAdd
    \/ DoCallerWrite
    \/ DoAverageProfile

StorageSpec == StorageInit /\ [][StorageNext]_vars

\* ------------------------------------------------------------------------
\* C11
\* ------------------------------------------------------------------------

\* no array is held twice: not by two holders, not as two arrays of one
NoSharedStorage ==
    LET hs == <<ref.caller>> \o ref.inst
    IN /\ \A a \in DOMAIN hs, b \in DOMAIN hs :
              a # b => Held(hs[a]) \cap Held(hs[b]) = {}
       /\ \A a \in DOMAIN hs : Cardinality(Held(hs[a])) = Len(Fields(kind))

\* the copy has been made, then scaled, then added to
CopyChangedTwice ==
    /\ Len(calls) = 3
    /\ calls[1] = <<"copy", 1, Len(profiles) + 1>>
    /\ calls[2] = <<"mul_scalar", Len(profiles) + 1, 0>>
    /\ calls[3][1] = "add" /\ calls[3][2] = Len(profiles) + 1

\* C11: for every kind, copy() returns an instance almost_equal to the
\* original that shares no array with it; add and mul_scalar on one instance
\* leave the arrays of every other instance (the original of a copy, the copy
\* of an original) unchanged; and a change the caller makes to the arrays it
\* constructed an instance from changes no instance.
C11_CopySharesNoStorage ==
    /\ NoSharedStorage
    /\ op.name = "copy" =>
           /\ AlmostEqual(kind, obj[op.arg], obj[op.self]) = Ok(TRUE)
           /\ \A i \in DOMAIN pre : obj[i] = pre[i]
    /\ op.name \in {"add", "mul_scalar"} =>
           \A i \in DOMAIN obj : i # op.self => obj[i] = pre[i]
    /\ op.name = "write" => obj = pre

\* the copy was scaled and added to, and the original is as constructed
C11_Witness ==
    /\ CopyChangedTwice
    /\ res.tag = "ok"
    /\ obj[Len(profiles) + 1] # pre[Len(profiles) + 1]
    /\ obj[1] = profiles[1]
    /\ obj[1] # obj[Len(profiles) + 1]

\* ------------------------------------------------------------------------
\* C16
\* ------------------------------------------------------------------------

\* average_profile has been called
AverageCalled == op.name = "average_profile"

\* C16: after average_profile, whether it returned the average or raised
\* part-way through the fold, every instance has the arrays it had before
\* the call, the first of the list included.
C16_AverageLeavesProfiles ==
    AverageCalled => obj = pre /\ Len(ref.inst) = Len(pre)

\* the fold added the second profile and failed on the third, whose last
\* breakpoint differs
C16_Witness ==
    /\ AverageCalled
    /\ op.arg = <<1, 2, 3>>
    /\ res.tag = "AssertionError"
    /\ Add(kind, obj[1], obj[2]).res.tag = "ok"
    /\ Add(kind, obj[1], obj[3]).res.tag = "AssertionError"


=============================================================================
